---- MODULE Spec2Model ----
(***************************************************************************)
(* Tenant-scoped real-time event distribution of the task board backend:  *)
(* the process-wide event bus (utils/events.ts), the SSE stream endpoint   *)
(* GET /rt/events (routes/rt.routes.ts, controllers/rt.controller.ts) with *)
(* its authentication and tenant middleware, and the board and task        *)
(* mutation handlers that publish on the bus; with them the refresh-token  *)
(* rotation of POST /auth/refresh and the two browser pages that consume   *)
(* the stream (Dashboard.tsx, BoardDetail.tsx).                            *)
(*                                                                         *)
(* One action is one run of the JavaScript event loop: the synchronous     *)
(* part of a request handler up to its next await, a timer callback, or an *)
(* event listener.  A mutation handler is taken as one step from its       *)
(* lookups to its response.                                                *)
(***************************************************************************)
EXTENDS Integers, Sequences, FiniteSets, TLC

\* ------------------------------------------------------------------ bounds
MaxConns  == 2      \* stream connections opened over a run
MaxEvents == 2      \* events published over a run
MaxBeats  == 1      \* heartbeat ticks over a run
MaxClock  == 1      \* clock ticks over a run
MaxRefresh == 2     \* POST /auth/refresh requests over a run
MaxListeners == 1   \* setMaxListeners(1000), scaled to the connections of a run

Conns  == 1..MaxConns
Refreshes == 1..MaxRefresh
NULL   == "null"

\* ---------------------------------------------------------------- the clock
VARIABLE
    now           \* the wall clock read by new Date() and by jwt.verify

\* ------------------------------------------------------- identities, tokens
\* verifyAccessToken (crypto.utils.ts): the payload of a token signed with the
\* secret and not expired, else null.  Issued is the set of such tokens.
Issued ==
    [ tokA |-> [userId |-> "u1", tenantId |-> "t1", roleName |-> "admin"],
      tokB |-> [userId |-> "u2", tenantId |-> "t1", roleName |-> "member"],
      tokC |-> [userId |-> "u3", tenantId |-> "t2", roleName |-> "admin"],
      tokD |-> [userId |-> "u4", tenantId |-> "t3", roleName |-> "admin"],
      tokE |-> [userId |-> "u5", tenantId |-> "t1", roleName |-> "member"],
      tokF |-> [userId |-> "u1", tenantId |-> "t1", roleName |-> "admin"] ]

\* The exp claim of each token, ACCESS_TOKEN_EXPIRY after it was signed: tokF
\* was signed long enough ago to expire at the first tick of the clock, the
\* others outlive every run.
TokenExp == [tokA |-> 99, tokB |-> 99, tokC |-> 99, tokD |-> 99, tokE |-> 99,
             tokF |-> 1]

\* prisma.user rows: the group of each user (NULL: none).
UserGroup == [u1 |-> NULL, u2 |-> "g1", u3 |-> NULL, u4 |-> NULL, u5 |-> NULL]

\* A property read that finds no such property.
UNDEFINED == "undefined"
\* req.user.groupId: the token payload has no groupId.
reqUserGroupId(payload) ==
    IF "groupId" \in DOMAIN payload THEN payload.groupId ELSE UNDEFINED

Tokens    == DOMAIN Issued \cup {"forged"}
StreamTokens == {"tokA", "tokC", "tokD", "forged"}
TenantIds == {"t1", "t2", "t3"}

\* null as a token payload
NoPayload == [userId |-> NULL, tenantId |-> NULL, roleName |-> NULL]

verifyAccessToken(token) ==
    IF token \in DOMAIN Issued /\ now < TokenExp[token]
    THEN Issued[token] ELSE NoPayload

\* ----------------------------------------------------------- refresh tokens
\* prisma.user rows with their tenant, as refresh reads them through the
\* token's user relation.
Users ==
    [ u1 |-> [tenantId |-> "t1", isActive |-> TRUE],
      u4 |-> [tenantId |-> "t3", isActive |-> TRUE],
      u6 |-> [tenantId |-> "t1", isActive |-> FALSE] ]

\* getRefreshTokenExpiry: REFRESH_TOKEN_EXPIRY_DAYS from the given time.
REFRESH_TOKEN_EXPIRY_DAYS == 7
getRefreshTokenExpiry(t) == t + REFRESH_TOKEN_EXPIRY_DAYS

\* The refresh tokens stored by earlier logins: one of u1 that is good for a
\* week, one of u1 that expires as soon as the clock moves, one of a user of
\* an inactive tenant and one of a deactivated user.
InitialRefreshTokens ==
    [ r1 |-> [userId |-> "u1", expiresAt |-> getRefreshTokenExpiry(0)],
      r2 |-> [userId |-> "u1", expiresAt |-> 0],
      r3 |-> [userId |-> "u4", expiresAt |-> getRefreshTokenExpiry(0)],
      r4 |-> [userId |-> "u6", expiresAt |-> getRefreshTokenExpiry(0)] ]

\* generateRefreshToken: 64 random bytes, never a value that was stored before.
RefreshPool == <<"n1", "n2", "n3", "n4", "n5", "n6">>

\* The row of a findUnique that found nothing.
NoRow == [userId |-> NULL, expiresAt |-> 0]
\* A refresh request that has not arrived.
NoRefresh == [pc |-> "idle", token |-> NULL, storedToken |-> NoRow,
              expired |-> FALSE, status |-> 0, refreshToken |-> NULL]

\* ------------------------------------------------------------ the browser
\* No page is mounted: the useState defaults, no stream, no request pending.
\* board is the set of the board displayed: empty for null.
NoUi == [page |-> "none", conn |-> 0, read |-> 0, boards |-> {}, board |-> {},
         tasks |-> {}, error |-> FALSE, fetching |-> {}]

\* ------------------------------------------------------------- the requests
NoHeader == [scheme |-> "", credentials |-> ""]
\* An Authorization header is its scheme prefix and what follows it.
AuthHeaders ==
    {NoHeader} \cup [scheme : {"Bearer "}, credentials : StreamTokens]
               \cup [scheme : {"Basic "}, credentials : {"tokA"}]
\* A stream request: the Authorization header and the ?token= query parameter.
StreamRequests ==
    [authorization : AuthHeaders, token : {NULL}]
        \cup [authorization : {NoHeader}, token : {"tokA"}]
NoRequest == [authorization |-> NoHeader, token |-> "none"]

startsWithBearer(authHeader) == authHeader.scheme = "Bearer "
slice7(authHeader) == authHeader.credentials

\* A faulty variant: the scheme of the Authorization header is not looked at.
authMiddlewareAnyScheme(req) ==
    LET authHeader == req.authorization
        payload    == verifyAccessToken(slice7(authHeader)) IN
    IF authHeader = NoHeader
    THEN [next |-> FALSE, status |-> 401, code |-> "UNAUTHORIZED", user |-> NoPayload]
    ELSE IF payload = NoPayload
    THEN [next |-> FALSE, status |-> 401, code |-> "INVALID_TOKEN", user |-> NoPayload]
    ELSE [next |-> TRUE, status |-> 0, code |-> "", user |-> payload]

\* A variant that falls back to the ?token= query parameter when the request
\* has no Authorization header.
authMiddlewareQueryFallback(req) ==
    LET authHeader == req.authorization
        token      == IF authHeader = NoHeader THEN req.token ELSE slice7(authHeader)
        payload    == verifyAccessToken(token) IN
    IF authHeader = NoHeader /\ req.token = NULL
    THEN [next |-> FALSE, status |-> 401, code |-> "UNAUTHORIZED", user |-> NoPayload]
    ELSE IF authHeader # NoHeader /\ ~startsWithBearer(authHeader)
    THEN [next |-> FALSE, status |-> 401, code |-> "INVALID_TOKEN_FORMAT", user |-> NoPayload]
    ELSE IF payload = NoPayload
    THEN [next |-> FALSE, status |-> 401, code |-> "INVALID_TOKEN", user |-> NoPayload]
    ELSE [next |-> TRUE, status |-> 0, code |-> "", user |-> payload]

\* authMiddleware: the response it sends, or the payload it attaches.
authMiddleware(req) ==
    LET authHeader == req.authorization IN
    IF authHeader = NoHeader
    THEN [next |-> FALSE, status |-> 401, code |-> "UNAUTHORIZED", user |-> NoPayload]
    ELSE IF ~startsWithBearer(authHeader)
    THEN [next |-> FALSE, status |-> 401, code |-> "INVALID_TOKEN_FORMAT", user |-> NoPayload]
    ELSE LET payload == verifyAccessToken(slice7(authHeader)) IN
         IF payload = NoPayload
         THEN [next |-> FALSE, status |-> 401, code |-> "INVALID_TOKEN", user |-> NoPayload]
         ELSE [next |-> TRUE, status |-> 0, code |-> "", user |-> payload]

\* ------------------------------------------------------------------- state
VARIABLES
    tenantDb,     \* prisma.tenant rows: tenant id -> "active" | "inactive" (absent: no row)
    boards,       \* prisma.board rows: id -> row
    tasks,        \* prisma.task rows: id -> row
    listeners,    \* eventBus: channel name -> registered callbacks, in registration order
    pc,           \* per stream connection: where its request is
    req,          \* per stream connection: the request it sent
    user,         \* per stream connection: req.user
    status,       \* per stream connection: HTTP status written, 0 if none
    code,         \* per stream connection: error code of a rejection
    closeFired,   \* per stream connection: req has emitted "close"
    closeListener,\* per stream connection: rtUpdates has registered its close listener
    timer,        \* per stream connection: heartbeatInterval is scheduled
    ended,        \* per stream connection: res.end() was called
    wrote,        \* per stream connection: the res.write calls, in order
    failing,      \* stream connections whose eventHandler raises when invoked
    raised,       \* history: stream connections whose eventHandler has raised
    beats,        \* history: heartbeat ticks so far
    teardowns,    \* history: runs of the connection's close listener
    published,    \* history: the events handed to eventBus.emit, in order
    lastMutation, \* history: the outcome of the last mutation request handled,
                  \* and the connections whose client was not reading then
    lastRequest,  \* history: the handler and the token of that request
    unwritable,   \* stream connections whose client has stopped reading
    refreshTokens,\* prisma.refreshToken rows: token -> row
    refreshReq,   \* per refresh request: where it is, what it read and answered
    ui            \* the browser page that consumes a stream: its React state

vars == <<tenantDb, boards, tasks, now, listeners, pc, req, user, status, code,
          closeFired, closeListener, timer, ended, wrote, failing, raised, beats,
          teardowns, published, lastMutation, lastRequest, unwritable,
          refreshTokens, refreshReq, ui>>

storeVars  == <<tenantDb, boards, tasks>>
streamVars == <<pc, req, user, status, code, closeFired, closeListener, timer,
                ended, beats, teardowns, unwritable>>
refreshVars == <<refreshTokens, refreshReq>>
clientVars == <<ui>>

\* ----------------------------------------------------------------- the bus
\* A faulty variant: one channel for every tenant.
SharedChannel(tenantId) == <<"tenant:", "t1">>

\* The channel name `tenant:${tenantId}`.
Channel(tenantId) == <<"tenant:", tenantId>>
Channels == {Channel(t) : t \in TenantIds}

Range(s) == {s[i] : i \in 1..Len(s)}

\* A faulty variant: the listener is added twice.
onTwice(ls, channel, cb) == [ls EXCEPT ![channel] = Append(Append(@, cb), cb)]

\* A variant with a ceiling: a listener beyond the limit is not added.
onUpToLimit(ls, channel, cb) ==
    IF Len(ls[channel]) >= MaxListeners THEN ls
    ELSE [ls EXCEPT ![channel] = Append(@, cb)]

\* EventEmitter.on: appends the listener.  When that takes the channel beyond
\* the limit of setMaxListeners, a MaxListenersExceededWarning is printed
\* once, and nothing else happens.
on(ls, channel, cb) == [ls EXCEPT ![channel] = Append(@, cb)]

\* EventEmitter.off: removes the most recently added instance of the listener,
\* nothing when it is not registered.
RemoveLast(s, cb) ==
    IF cb \notin Range(s) THEN s
    ELSE LET i == CHOOSE k \in 1..Len(s) :
                      s[k] = cb /\ \A j \in (k+1)..Len(s) : s[j] # cb
         IN SubSeq(s, 1, i-1) \o SubSeq(s, i+1, Len(s))
\* A faulty variant: every listener of the channel is removed.
offWholeChannel(ls, channel, cb) == [ls EXCEPT ![channel] = <<>>]

off(ls, channel, cb) == [ls EXCEPT ![channel] = RemoveLast(@, cb)]

\* ------------------------------------------------------------ wire encoding
\* What a res.write call is given; ev is the index in `published` of the event
\* the frame was made from (0 for the connected and heartbeat frames).
ConnectedFrame(tenantId, t) ==
    [type |-> "connected", tenantId |-> tenantId, timestamp |-> t]
HeartbeatFrame(t) ==
    [type |-> "heartbeat", timestamp |-> t]
\* A faulty variant: the change kind comes first.
FrameTypeKindFirst(event) == <<event.type, "_", event.entity>>

\* `${event.entity}_${event.type}`
FrameType(event) == <<event.entity, "_", event.type>>
EventFrame(event) ==
    [type |-> FrameType(event), data |-> event.data, timestamp |-> event.timestamp]

\* A faulty variant: the newest frame goes in front of the frames written so far.
eventHandlerInFront(w, c, event, idx) ==
    [w EXCEPT ![c] = <<[frame |-> EventFrame(event), ev |-> idx]>> \o @]

\* A faulty variant: only the sessions of administrators are written.
eventHandlerAdminsOnly(w, c, event, idx) ==
    IF user[c].roleName = "admin"
    THEN [w EXCEPT ![c] = Append(@, [frame |-> EventFrame(event), ev |-> idx])]
    ELSE w

\* A variant that verifies the session's token again before each write.
eventHandlerReverifies(w, c, event, idx) ==
    IF verifyAccessToken(req[c].authorization.credentials) = NoPayload
    THEN w
    ELSE [w EXCEPT ![c] = Append(@, [frame |-> EventFrame(event), ev |-> idx])]

\* eventHandler of one connection, invoked with an event.
eventHandler(w, c, event, idx) ==
    [w EXCEPT ![c] = Append(@, [frame |-> EventFrame(event), ev |-> idx])]

\* A faulty variant: only the first listener is called.
emitToFirst(ls, w, event, idx) ==
    IF ls = <<>> THEN [wrote |-> w, threw |-> {}]
    ELSE [wrote |-> [w EXCEPT ![Head(ls)] =
                        Append(@, [frame |-> EventFrame(event), ev |-> idx])],
          threw |-> {}]

\* A faulty variant: an emit without listeners throws (as EventEmitter does
\* for the event name "error").
emitThrowsUnheard(ls, w, event, idx) ==
    IF ls = <<>> THEN [wrote |-> w, threw |-> {0}]
    ELSE [wrote |-> [c \in DOMAIN w |->
                        IF c \in Range(ls)
                        THEN Append(w[c], [frame |-> EventFrame(event), ev |-> idx])
                        ELSE w[c]],
          threw |-> {}]

\* A variant that waits for a listener's client to drain: at a connection
\* whose client is not reading the call does not get further.
RECURSIVE emitAwaitsDrain(_, _, _, _)
emitAwaitsDrain(ls, w, event, idx) ==
    IF ls = <<>> THEN [wrote |-> w, threw |-> {}]
    ELSE IF Head(ls) \in unwritable
         THEN [wrote |-> w, threw |-> {}]
         ELSE emitAwaitsDrain(Tail(ls), eventHandler(w, Head(ls), event, idx), event, idx)

\* EventEmitter.emit: calls the listeners registered at the time of the call,
\* in registration order; a listener that throws ends the call, and the
\* exception leaves emit.
RECURSIVE emit(_, _, _, _)
emit(ls, w, event, idx) ==
    IF ls = <<>> THEN [wrote |-> w, threw |-> {}]
    ELSE IF Head(ls) \in failing
         THEN [wrote |-> w, threw |-> {Head(ls)}]
         ELSE emit(Tail(ls), eventHandler(w, Head(ls), event, idx), event, idx)

\* The TenantEvent that emitBoardEvent and emitTaskEvent build.
emitBoardEvent(tenantId, type, data) ==
    [tenantId |-> tenantId, type |-> type, entity |-> "board", data |-> data,
     timestamp |-> now]
emitTaskEvent(tenantId, type, data) ==
    [tenantId |-> tenantId, type |-> type, entity |-> "task", data |-> data,
     timestamp |-> now]

\* --------------------------------------------------------------------- Init
Init ==
    /\ tenantDb = [t \in {"t1", "t2", "t3"} |-> IF t = "t3" THEN "inactive" ELSE "active"]
    /\ boards = [b \in {"b1"} |->
                    [tenantId |-> "t1", ownerId |-> "u1", groupId |-> NULL,
                     name |-> "n0"]]
    /\ tasks = [k \in {"k1"} |->
                    [boardId |-> "b1", ownerId |-> "u1", assigneeId |-> NULL,
                     parentTaskId |-> NULL, status |-> "TODO"]]
    /\ now = 0
    /\ listeners = [ch \in Channels |-> <<>>]
    /\ pc = [c \in Conns |-> "idle"]
    /\ req = [c \in Conns |-> NoRequest]
    /\ user = [c \in Conns |-> NoPayload]
    /\ status = [c \in Conns |-> 0]
    /\ code = [c \in Conns |-> ""]
    /\ closeFired = [c \in Conns |-> FALSE]
    /\ closeListener = [c \in Conns |-> FALSE]
    /\ timer = [c \in Conns |-> FALSE]
    /\ ended = [c \in Conns |-> FALSE]
    /\ wrote = [c \in Conns |-> <<>>]
    /\ failing = {}
    /\ raised = {}
    /\ beats = 0
    /\ teardowns = [c \in Conns |-> 0]
    /\ published = <<>>
    /\ lastMutation = [committed |-> FALSE, status |-> 0, emitted |-> 0,
                       stalled |-> {}]
    /\ lastRequest = [op |-> "", token |-> ""]
    /\ unwritable = {}
    /\ refreshTokens = InitialRefreshTokens
    /\ refreshReq = [r \in Refreshes |-> NoRefresh]
    /\ ui = NoUi

\* ---------------------------------------------------------- stream endpoint
\* GET /rt/events arrives: authMiddleware runs, then tenantMiddleware up to
\* its await of prisma.tenant.findUnique.
StreamRequest(c, r) ==
    /\ pc[c] = "idle"
    /\ \A d \in Conns : d < c => pc[d] # "idle"
    /\ LET a == authMiddleware(r) IN
       /\ req' = [req EXCEPT ![c] = r]
       /\ user' = [user EXCEPT ![c] = a.user]
       /\ status' = [status EXCEPT ![c] = a.status]
       /\ code' = [code EXCEPT ![c] = a.code]
       /\ pc' = [pc EXCEPT ![c] = IF a.next THEN "tenantCheck" ELSE "rejected"]
    /\ UNCHANGED <<storeVars, now, listeners, closeFired, closeListener, timer, ended,
                   wrote, failing, raised, beats, teardowns,
                   published, lastMutation, lastRequest,
                   unwritable,
                   refreshVars, clientVars>>

\* A variant that replays the events of the tenant published so far to a
\* session that opens.
rtUpdatesReplays(c) ==
    LET tenantId == user[c].tenantId
        missed == SelectSeq([i \in 1..Len(published) |->
                                [frame |-> EventFrame(published[i]), ev |-> i]],
                            LAMBDA f : published[f.ev].tenantId = tenantId) IN
    /\ status' = [status EXCEPT ![c] = 200]
    /\ wrote' = [wrote EXCEPT ![c] =
                    Append(@, [frame |-> ConnectedFrame(tenantId, now), ev |-> 0])
                        \o missed]
    /\ timer' = [timer EXCEPT ![c] = TRUE]
    /\ listeners' = on(listeners, Channel(tenantId), c)
    /\ closeListener' = [closeListener EXCEPT ![c] = TRUE]
    /\ pc' = [pc EXCEPT ![c] = "open"]
    /\ UNCHANGED code

\* A variant that sends no acknowledgement when the session opens.
rtUpdatesNoAck(c) ==
    LET tenantId == user[c].tenantId IN
    /\ status' = [status EXCEPT ![c] = 200]
    /\ wrote' = wrote
    /\ timer' = [timer EXCEPT ![c] = TRUE]
    /\ listeners' = on(listeners, Channel(tenantId), c)
    /\ closeListener' = [closeListener EXCEPT ![c] = TRUE]
    /\ pc' = [pc EXCEPT ![c] = "open"]
    /\ UNCHANGED code

\* rtUpdates, which runs to its end without an await.
rtUpdates(c) ==
    LET tenantId == user[c].tenantId IN
    /\ status' = [status EXCEPT ![c] = 200]
    /\ wrote' = [wrote EXCEPT ![c] =
                    Append(@, [frame |-> ConnectedFrame(tenantId, now), ev |-> 0])]
    /\ timer' = [timer EXCEPT ![c] = TRUE]
    /\ listeners' = on(listeners, Channel(tenantId), c)
    /\ closeListener' = [closeListener EXCEPT ![c] = TRUE]
    /\ pc' = [pc EXCEPT ![c] = "open"]
    /\ UNCHANGED code

\* prisma.tenant.findUnique resolves: the rest of tenantMiddleware, and on
\* next() the whole of rtUpdates.
TenantCheck(c) ==
    /\ pc[c] = "tenantCheck"
    /\ LET tenantId == user[c].tenantId IN
       IF tenantId \notin DOMAIN tenantDb
       THEN /\ status' = [status EXCEPT ![c] = 403]
            /\ code' = [code EXCEPT ![c] = "TENANT_NOT_FOUND"]
            /\ pc' = [pc EXCEPT ![c] = "rejected"]
            /\ UNCHANGED <<wrote, timer, listeners, closeListener>>
       ELSE IF tenantDb[tenantId] # "active"
       THEN /\ status' = [status EXCEPT ![c] = 403]
            /\ code' = [code EXCEPT ![c] = "TENANT_INACTIVE"]
            /\ pc' = [pc EXCEPT ![c] = "rejected"]
            /\ UNCHANGED <<wrote, timer, listeners, closeListener>>
       ELSE rtUpdates(c)
    /\ UNCHANGED <<storeVars, now, req, user, closeFired, ended, failing, raised, beats,
                   teardowns, published, lastMutation, lastRequest,
                   unwritable,
                   refreshVars, clientVars>>

\* A faulty variant: the heartbeat interval is not cleared.
closeHandlerKeepsTimer(c) ==
    /\ timer' = timer
    /\ listeners' = off(listeners, Channel(user[c].tenantId), c)
    /\ ended' = [ended EXCEPT ![c] = TRUE]
    /\ teardowns' = [teardowns EXCEPT ![c] = @ + 1]
    /\ pc' = [pc EXCEPT ![c] = "closed"]

\* The listener rtUpdates registers on req "close".
closeHandler(c) ==
    /\ timer' = [timer EXCEPT ![c] = FALSE]
    /\ listeners' = off(listeners, Channel(user[c].tenantId), c)
    /\ ended' = [ended EXCEPT ![c] = TRUE]
    /\ teardowns' = [teardowns EXCEPT ![c] = @ + 1]
    /\ pc' = [pc EXCEPT ![c] = "closed"]

\* The client closes the connection: req emits "close" once, to the listeners
\* registered at that time.
ClientClose(c) ==
    /\ pc[c] \in {"tenantCheck", "open"}
    /\ ~closeFired[c]
    /\ closeFired' = [closeFired EXCEPT ![c] = TRUE]
    /\ IF closeListener[c]
       THEN closeHandler(c)
       ELSE UNCHANGED <<timer, listeners, ended, teardowns, pc>>
    /\ UNCHANGED <<storeVars, now, req, user, status, code, closeListener, wrote,
                   failing, raised, beats, published, lastMutation, lastRequest,
                   unwritable,
                   refreshVars, clientVars>>

\* The setInterval callback of a connection.
Heartbeat(c) ==
    /\ timer[c]
    /\ beats < MaxBeats
    /\ beats' = beats + 1
    /\ wrote' = [wrote EXCEPT ![c] = Append(@, [frame |-> HeartbeatFrame(now), ev |-> 0])]
    /\ UNCHANGED <<storeVars, now, listeners, pc, req, user, status, code, closeFired,
                   closeListener, timer, ended, failing, raised, teardowns, published,
                   lastMutation, lastRequest,
                   unwritable,
                   refreshVars, clientVars>>

\* The client of an open connection stops reading: the socket's buffer fills
\* and res.write returns false from then on.  Nothing in rtUpdates looks at
\* that return value or listens for "drain".
ClientStopsReading(c) ==
    /\ pc[c] = "open"
    /\ ~closeFired[c]
    /\ c \notin unwritable
    /\ unwritable' = unwritable \cup {c}
    /\ UNCHANGED <<storeVars, now, listeners, pc, req, user, status, code, closeFired,
                   closeListener, timer, ended, beats, teardowns, wrote, failing,
                   raised, published, lastMutation, lastRequest,
                   refreshVars, clientVars>>

\* The tenant's row is set inactive in the database (Tenant.isActive), by
\* whoever administers it: no route of the server writes that column.
DeactivateTenant(t) ==
    /\ t \in DOMAIN tenantDb /\ tenantDb[t] = "active"
    /\ tenantDb' = [tenantDb EXCEPT ![t] = "inactive"]
    /\ UNCHANGED <<boards, tasks, now, listeners, streamVars, wrote, failing, raised,
                   published, lastMutation, lastRequest, refreshVars, clientVars>>

\* Time passes between two runs of the event loop.
Tick ==
    /\ now < MaxClock
    /\ now' = now + 1
    /\ UNCHANGED <<storeVars, listeners, streamVars, wrote, failing, raised, published,
                   lastMutation, lastRequest,
                   refreshVars, clientVars>>

\* --------------------------------------------------------- refresh endpoint
\* The tokens generateRefreshToken has returned so far.
Minted == {refreshReq[r].refreshToken : r \in Refreshes} \ {NULL}
generateRefreshToken == RefreshPool[Cardinality(Minted) + 1]

\* POST /auth/refresh arrives and prisma.refreshToken.findUnique resolves: the
\* handler up to its next await.
RefreshFind(r, tokenValue) ==
    /\ refreshReq[r].pc = "idle"
    /\ \A q \in Refreshes : q < r => refreshReq[q].pc # "idle"
    /\ IF tokenValue \notin DOMAIN refreshTokens
       THEN refreshReq' = [refreshReq EXCEPT ![r] =
                [@ EXCEPT !.pc = "done", !.token = tokenValue, !.status = 401]]
       ELSE LET storedToken == refreshTokens[tokenValue]
                u == Users[storedToken.userId] IN
            refreshReq' = [refreshReq EXCEPT ![r] =
                [@ EXCEPT !.token = tokenValue, !.storedToken = storedToken,
                          !.expired = storedToken.expiresAt < now,
                          !.pc = IF storedToken.expiresAt < now THEN "deleteExpired"
                                 ELSE IF ~u.isActive THEN "done"
                                 ELSE IF tenantDb[u.tenantId] # "active" THEN "done"
                                 ELSE "delete",
                          !.status = IF storedToken.expiresAt < now THEN 0
                                     ELSE IF ~u.isActive THEN 401
                                     ELSE IF tenantDb[u.tenantId] # "active" THEN 401
                                     ELSE 0]]
    /\ UNCHANGED <<storeVars, now, listeners, streamVars, wrote, failing, raised,
                   published, lastMutation, lastRequest, refreshTokens,
                   clientVars>>

\* prisma.refreshToken.delete of the expired token resolves: the handler
\* throws unauthorizedError, or the delete found no row and threw P2025, which
\* errorMiddleware answers with 404.
RefreshDeleteExpired(r) ==
    /\ refreshReq[r].pc = "deleteExpired"
    /\ LET id == refreshReq[r].token IN
       IF id \in DOMAIN refreshTokens
       THEN /\ refreshTokens' = [t \in DOMAIN refreshTokens \ {id} |-> refreshTokens[t]]
            /\ refreshReq' = [refreshReq EXCEPT ![r] =
                                 [@ EXCEPT !.pc = "done", !.status = 401]]
       ELSE /\ refreshTokens' = refreshTokens
            /\ refreshReq' = [refreshReq EXCEPT ![r] =
                                 [@ EXCEPT !.pc = "done", !.status = 404]]
    /\ UNCHANGED <<storeVars, now, listeners, streamVars, wrote, failing, raised,
                   published, lastMutation, lastRequest, clientVars>>

\* A variant that rotates with deleteMany, which does not throw when the row
\* is gone.
refreshDeleteMany(r) ==
    LET id == refreshReq[r].token IN
    /\ refreshTokens' = [t \in DOMAIN refreshTokens \ {id} |-> refreshTokens[t]]
    /\ refreshReq' = [refreshReq EXCEPT ![r] = [@ EXCEPT !.pc = "create"]]

\* prisma.refreshToken.delete({where: {id: storedToken.id}}) of the rotation:
\* removes the row, or throws P2025 when there is no such row.
refreshDelete(r) ==
    LET id == refreshReq[r].token IN
    IF id \in DOMAIN refreshTokens
    THEN /\ refreshTokens' = [t \in DOMAIN refreshTokens \ {id} |-> refreshTokens[t]]
         /\ refreshReq' = [refreshReq EXCEPT ![r] = [@ EXCEPT !.pc = "create"]]
    ELSE /\ refreshTokens' = refreshTokens
         /\ refreshReq' = [refreshReq EXCEPT ![r] =
                              [@ EXCEPT !.pc = "done", !.status = 404]]

\* The delete of the rotation resolves.
RefreshDelete(r) ==
    /\ refreshReq[r].pc = "delete"
    /\ refreshDelete(r)
    /\ UNCHANGED <<storeVars, now, listeners, streamVars, wrote, failing, raised,
                   published, lastMutation, lastRequest, clientVars>>

\* prisma.refreshToken.create resolves and the new tokens are sent.
RefreshCreate(r) ==
    /\ refreshReq[r].pc = "create"
    /\ LET newRefreshToken == generateRefreshToken
           row == [userId |-> refreshReq[r].storedToken.userId,
                   expiresAt |-> getRefreshTokenExpiry(now)] IN
       /\ refreshTokens' = [t \in DOMAIN refreshTokens \cup {newRefreshToken} |->
                               IF t = newRefreshToken THEN row ELSE refreshTokens[t]]
       /\ refreshReq' = [refreshReq EXCEPT ![r] =
                            [@ EXCEPT !.pc = "done", !.status = 200,
                                      !.refreshToken = newRefreshToken]]
    /\ UNCHANGED <<storeVars, now, listeners, streamVars, wrote, failing, raised,
                   published, lastMutation, lastRequest, clientVars>>

\* -------------------------------------------------------- mutation handlers
\* A mutation request that came through authMiddleware and tenantMiddleware:
\* req.user of a request carrying `Authorization: Bearer <token>`.
Bearer(token) == [authorization |-> [scheme |-> "Bearer ", credentials |-> token],
                  token |-> NULL]
Admitted(token) ==
    /\ authMiddleware(Bearer(token)).next
    /\ verifyAccessToken(token).tenantId \in DOMAIN tenantDb
    /\ tenantDb[verifyAccessToken(token).tenantId] = "active"

\* Fresh primary keys (uuid): never one that was used before.
BoardIdPool == <<"b2", "b3", "b4", "b5">>
TaskIdPool  == <<"k2", "k3", "k4", "k5">>
Created(entity) ==
    Cardinality({i \in 1..Len(published) :
                    published[i].entity = entity /\ published[i].type = "created"})
newBoardId == BoardIdPool[Created("board") + 1]
newTaskId  == TaskIdPool[Created("task") + 1]

\* BoardResponse / TaskResponse built from a row.
BoardResponse(id, row) ==
    [id |-> id, name |-> row.name, ownerId |-> row.ownerId,
     tenantId |-> row.tenantId, groupId |-> row.groupId]
TaskResponse(id, row) ==
    [id |-> id, status |-> row.status, boardId |-> row.boardId,
     ownerId |-> row.ownerId, assigneeId |-> row.assigneeId,
     parentTaskId |-> row.parentTaskId]

\* A faulty variant: after emit has returned the handler stamps the event
\* object with a later time.
PublishThenStamps(event, okStatus) ==
    LET idx   == Len(published) + 1
        ls    == listeners[Channel(event.tenantId)]
        r     == emit(ls, wrote, event, idx)
    IN  /\ Len(published) < MaxEvents
        /\ published' = Append(published, [event EXCEPT !.timestamp = @ + 1])
        /\ wrote' = r.wrote
        /\ raised' = raised \cup r.threw
        /\ lastMutation' = [committed |-> TRUE,
                            status |-> IF r.threw # {} THEN 500 ELSE okStatus,
                            emitted |-> idx, stalled |-> unwritable]

\* eventBus.emit(`tenant:${tenantId}`, event) and what the handler does after:
\* its success response, unless emit threw, in which case the rejected handler
\* promise is answered by errorMiddleware with 500.
Publish(event, okStatus) ==
    LET idx   == Len(published) + 1
        ls    == listeners[Channel(event.tenantId)]
        r     == emit(ls, wrote, event, idx)
    IN  /\ Len(published) < MaxEvents
        /\ published' = Append(published, event)
        /\ wrote' = r.wrote
        /\ raised' = raised \cup r.threw
        /\ lastMutation' = [committed |-> TRUE,
                            status |-> IF r.threw # {} THEN 500 ELSE okStatus,
                            emitted |-> idx, stalled |-> unwritable]

\* A handler that throws an AppError before its write: errorMiddleware answers.
Fail(errStatus) ==
    /\ lastMutation' = [committed |-> FALSE, status |-> errStatus, emitted |-> 0,
                        stalled |-> unwritable]
    /\ UNCHANGED <<boards, tasks, published, wrote, raised>>

\* validateBoardAccess: the board exists and belongs to the caller's tenant.
validateBoardAccess(boardId, tenantId) ==
    boardId \in DOMAIN boards /\ boards[boardId].tenantId = tenantId

\* A variant that takes the tenant from the request body when it names one.
createBoardTenantFromBody(token, body) ==
    LET u   == verifyAccessToken(token)
        tenantId == IF body.tenantId = NULL THEN u.tenantId ELSE body.tenantId
        row == [tenantId |-> tenantId, ownerId |-> u.userId,
                groupId |-> IF u.roleName = "admin" THEN body.groupId ELSE NULL,
                name |-> body.name]
        id  == newBoardId
    IN  /\ Admitted(token)
        /\ boards' = [b \in DOMAIN boards \cup {id} |->
                         IF b = id THEN row ELSE boards[b]]
        /\ UNCHANGED tasks
        /\ Publish(emitBoardEvent(tenantId, "created", BoardResponse(id, row)), 201)

\* body: the JSON the client sent; createBoard reads name and groupId of it
\* (req.user.groupId is not part of the token payload: undefined).
createBoard(token, body) ==
    LET u   == verifyAccessToken(token)
        row == [tenantId |-> u.tenantId, ownerId |-> u.userId,
                groupId |-> IF u.roleName = "admin" THEN body.groupId ELSE NULL,
                name |-> body.name]
        id  == newBoardId
    IN  /\ Admitted(token)
        /\ boards' = [b \in DOMAIN boards \cup {id} |->
                         IF b = id THEN row ELSE boards[b]]
        /\ UNCHANGED tasks
        /\ Publish(emitBoardEvent(u.tenantId, "created", BoardResponse(id, row)), 201)

\* A faulty variant: the event is published before the permission check.
updateBoardEmitsFirst(token, id, body) ==
    LET u == verifyAccessToken(token) IN
    /\ Admitted(token)
    /\ IF ~(id \in DOMAIN boards /\ boards[id].tenantId = u.tenantId)
       THEN Fail(404)
       ELSE /\ UNCHANGED <<boards, tasks>>
            /\ Publish(emitBoardEvent(u.tenantId, "updated",
                                      BoardResponse(id, boards[id])),
                       IF boards[id].ownerId # u.userId /\ u.roleName # "admin"
                       THEN 403 ELSE 200)

updateBoard(token, id, body) ==
    LET u == verifyAccessToken(token) IN
    /\ Admitted(token)
    /\ IF ~(id \in DOMAIN boards /\ boards[id].tenantId = u.tenantId)
       THEN Fail(404)
       ELSE IF boards[id].ownerId # u.userId /\ u.roleName # "admin"
       THEN Fail(403)
       ELSE LET row == [boards[id] EXCEPT
                           !.name = IF body.name = NULL THEN @ ELSE body.name]
            IN  /\ boards' = [boards EXCEPT ![id] = row]
                /\ UNCHANGED tasks
                /\ Publish(emitBoardEvent(u.tenantId, "updated",
                                          BoardResponse(id, row)), 200)

\* ON DELETE CASCADE of Task.parentTaskId: the tasks removed with `ids`.
RECURSIVE Cascade(_, _)
Cascade(ts, ids) ==
    LET more == {k \in DOMAIN ts : ts[k].parentTaskId \in ids} \ ids IN
    IF more = {} THEN ids ELSE Cascade(ts, ids \cup more)

deleteBoard(token, id) ==
    LET u == verifyAccessToken(token) IN
    /\ Admitted(token)
    /\ IF ~(id \in DOMAIN boards /\ boards[id].tenantId = u.tenantId)
       THEN Fail(404)
       ELSE IF boards[id].ownerId # u.userId /\ u.roleName # "admin"
       THEN Fail(403)
       ELSE LET gone == Cascade(tasks, {j \in DOMAIN tasks : tasks[j].boardId = id})
            IN  /\ boards' = [b \in DOMAIN boards \ {id} |-> boards[b]]
                /\ tasks' = [k \in DOMAIN tasks \ gone |-> tasks[k]]
                /\ Publish(emitBoardEvent(u.tenantId, "deleted",
                                          [id |-> id, tenantId |-> u.tenantId]), 200)

\* prisma.user.findFirst({where: {id: assigneeId, tenantId}})
userInTenant(userId, tenantId) ==
    \E t \in DOMAIN Issued :
        Issued[t].userId = userId /\ Issued[t].tenantId = tenantId

createTask(token, boardId, body) ==
    LET u   == verifyAccessToken(token)
        row == [boardId |-> boardId, ownerId |-> u.userId,
                assigneeId |-> body.assigneeId, parentTaskId |-> body.parentTaskId,
                status |-> IF body.status = NULL THEN "TODO" ELSE body.status]
        id  == newTaskId
    IN  /\ Admitted(token)
        /\ IF ~validateBoardAccess(boardId, u.tenantId)
           THEN Fail(404)
           ELSE IF body.assigneeId # NULL /\ ~userInTenant(body.assigneeId, u.tenantId)
           THEN Fail(404)
           ELSE IF /\ body.parentTaskId # NULL
                   /\ ~(/\ body.parentTaskId \in DOMAIN tasks
                        /\ tasks[body.parentTaskId].boardId = boardId)
           THEN Fail(404)
           ELSE /\ tasks' = [k \in DOMAIN tasks \cup {id} |->
                                IF k = id THEN row ELSE tasks[k]]
                /\ UNCHANGED boards
                /\ Publish(emitTaskEvent(u.tenantId, "created", TaskResponse(id, row)), 201)

\* body fields that are NULL here are undefined in the request: left as they are.
updateTask(token, boardId, id, body) ==
    LET u == verifyAccessToken(token) IN
    /\ Admitted(token)
    /\ IF ~validateBoardAccess(boardId, u.tenantId)
       THEN Fail(404)
       ELSE IF ~(id \in DOMAIN tasks /\ tasks[id].boardId = boardId)
       THEN Fail(404)
       ELSE IF ~(\/ tasks[id].ownerId = u.userId
                 \/ tasks[id].assigneeId = u.userId
                 \/ u.roleName = "admin")
       THEN Fail(403)
       ELSE IF body.assigneeId # NULL /\ ~userInTenant(body.assigneeId, u.tenantId)
       THEN Fail(404)
       ELSE IF body.parentTaskId = id
       THEN Fail(403)
       ELSE IF body.parentTaskId # NULL /\ body.parentTaskId \notin DOMAIN tasks
       THEN Fail(500)   \* the foreign key rejects the update
       ELSE LET row == [tasks[id] EXCEPT
                           !.status = IF body.status = NULL THEN @ ELSE body.status,
                           !.assigneeId =
                               IF body.assigneeId = NULL THEN @ ELSE body.assigneeId,
                           !.parentTaskId =
                               IF body.parentTaskId = NULL THEN @ ELSE body.parentTaskId]
            IN  /\ tasks' = [tasks EXCEPT ![id] = row]
                /\ UNCHANGED boards
                /\ Publish(emitTaskEvent(u.tenantId, "updated", TaskResponse(id, row)), 200)

deleteTask(token, boardId, id) ==
    LET u == verifyAccessToken(token) IN
    /\ Admitted(token)
    /\ IF ~validateBoardAccess(boardId, u.tenantId)
       THEN Fail(404)
       ELSE IF ~(id \in DOMAIN tasks /\ tasks[id].boardId = boardId)
       THEN Fail(404)
       ELSE IF tasks[id].ownerId # u.userId /\ u.roleName # "admin"
       THEN Fail(403)
       ELSE /\ tasks' = [k \in DOMAIN tasks \ Cascade(tasks, {id}) |-> tasks[k]]
            /\ UNCHANGED boards
            /\ Publish(emitTaskEvent(u.tenantId, "deleted",
                                     [id |-> id, boardId |-> boardId,
                                      tenantId |-> u.tenantId]), 200)

\* How the query engine treats a filter {groupId: undefined} inside OR: as a
\* filter without conditions, which every row passes, or as no filter at all.
PrismaModes == {"matchesAll", "dropped"}

\* The where clause of getBoards and getBoard, on one board row.
boardWhere(row, u, mode) ==
    /\ row.tenantId = u.tenantId
    /\ u.roleName # "admin" =>
          \/ IF reqUserGroupId(u) = UNDEFINED
             THEN mode = "matchesAll"
             ELSE row.groupId = reqUserGroupId(u)
          \/ (row.groupId = NULL /\ row.ownerId = u.userId)

\* getBoards: the ids of the boards in the response.
getBoards(token, mode) ==
    {id \in DOMAIN boards : boardWhere(boards[id], verifyAccessToken(token), mode)}

\* getBoard: the status of the response.
getBoard(token, id, mode) ==
    IF \E b \in DOMAIN boards :
          b = id /\ boardWhere(boards[b], verifyAccessToken(token), mode)
    THEN 200 ELSE 404

\* -------------------------------------------------- the stream consumers
\* The user of the browser and the board of the route /boards/:boardId.
ClientToken == "tokA"
RouteBoardId == "b1"

\* GET /boards: the rows getBoards answers with.
getBoardsResponse(token) ==
    {BoardResponse(id, boards[id]) :
        id \in {b \in DOMAIN boards : \A mode \in PrismaModes : b \in getBoards(token, mode)}}

\* GET /boards/:boardId/tasks: the top-level tasks of the board.
getTasks(token, boardId) ==
    IF validateBoardAccess(boardId, verifyAccessToken(token).tenantId)
    THEN [status |-> 200,
          data |-> {TaskResponse(k, tasks[k]) :
                       k \in {j \in DOMAIN tasks : /\ tasks[j].boardId = boardId
                                                   /\ tasks[j].parentTaskId = NULL}}]
    ELSE [status |-> 404, data |-> {}]

\* JSON.parse(ev.data).type is "connected" or "heartbeat": the frames without
\* a data member.
isSynthetic(f) == "data" \notin DOMAIN f
\* data.type === `${entity}_${kind}`
hasType(f, entity, kind) == ~isSynthetic(f) /\ f.type = <<entity, "_", kind>>

\* A variant of the Dashboard that puts the payload of a board_created frame
\* into its list.
dashboardOnMessageApplies(u, f) ==
    IF isSynthetic(f) THEN u
    ELSE IF hasType(f, "board", "created")
    THEN [u EXCEPT !.boards = @ \cup {f.data}]
    ELSE IF hasType(f, "board", "updated") \/ hasType(f, "board", "deleted")
    THEN [u EXCEPT !.fetching = @ \cup {"boards"}]
    ELSE u

\* onmessage of the Dashboard: a board frame calls fetchBoards.
dashboardOnMessage(u, f) ==
    IF isSynthetic(f) THEN u
    ELSE IF \/ hasType(f, "board", "created") \/ hasType(f, "board", "updated")
            \/ hasType(f, "board", "deleted")
    THEN [u EXCEPT !.fetching = @ \cup {"boards"}]
    ELSE u

\* navigate('/'): BoardDetail unmounts and aborts its stream, the Dashboard
\* mounts with its defaults, calls fetchBoards and opens its own stream.
navigate(u) ==
    [NoUi EXCEPT !.page = "dashboard", !.conn = u.conn + 1, !.fetching = {"boards"}]

\* onmessage of BoardDetail: a task frame of this board and a board_updated
\* frame of this board call fetchBoardData, a board_deleted frame of this
\* board navigates away.
boardDetailOnMessage(u, f) ==
    IF isSynthetic(f) THEN u
    ELSE IF \/ hasType(f, "task", "created") \/ hasType(f, "task", "updated")
            \/ hasType(f, "task", "deleted")
    THEN IF \/ ("boardId" \in DOMAIN f.data /\ f.data.boardId = RouteBoardId)
            \/ f.data.id = RouteBoardId
         THEN [u EXCEPT !.fetching = @ \cup {"boardData"}]
         ELSE u
    ELSE IF hasType(f, "board", "updated") /\ f.data.id = RouteBoardId
    THEN [u EXCEPT !.fetching = @ \cup {"boardData"}]
    ELSE IF hasType(f, "board", "deleted") /\ f.data.id = RouteBoardId
    THEN navigate(u)
    ELSE u

\* The user opens a page: its initial load is requested, and its stream is the
\* first connection.
Mount(page) ==
    /\ ui.page = "none"
    /\ ui' = [NoUi EXCEPT !.page = page, !.conn = 1,
                          !.fetching = IF page = "dashboard" THEN {"boards"}
                                       ELSE {"boardData"}]
    /\ UNCHANGED <<storeVars, now, listeners, streamVars, wrote, failing, raised,
                   published, lastMutation, lastRequest, refreshVars>>

\* fetchEventSource hands the next frame of the page's stream to onmessage.
ConsumerMessage ==
    /\ ui.page \in {"dashboard", "boardDetail"}
    /\ ui.conn \in Conns
    /\ ui.read < Len(wrote[ui.conn])
    /\ LET f == wrote[ui.conn][ui.read + 1].frame
           u == [ui EXCEPT !.read = @ + 1] IN
       ui' = IF ui.page = "dashboard" THEN dashboardOnMessage(u, f)
             ELSE boardDetailOnMessage(u, f)
    /\ UNCHANGED <<storeVars, now, listeners, streamVars, wrote, failing, raised,
                   published, lastMutation, lastRequest, refreshVars>>

\* The requests of fetchBoards or fetchBoardData are answered from the store
\* as it is now, and the page sets its state from the answers.
FetchResolve(kind) ==
    /\ kind \in ui.fetching
    /\ IF kind = "boards"
       THEN ui' = [ui EXCEPT !.fetching = @ \ {kind},
                             !.boards = getBoardsResponse(ClientToken)]
       ELSE LET tasksRes == getTasks(ClientToken, RouteBoardId) IN
            IF /\ \A mode \in PrismaModes : getBoard(ClientToken, RouteBoardId, mode) = 200
               /\ tasksRes.status = 200
            THEN ui' = [ui EXCEPT !.fetching = @ \ {kind},
                                  !.board = {BoardResponse(RouteBoardId, boards[RouteBoardId])},
                                  !.tasks = tasksRes.data]
            ELSE ui' = [ui EXCEPT !.fetching = @ \ {kind}, !.error = TRUE]
    /\ UNCHANGED <<storeVars, now, listeners, streamVars, wrote, failing, raised,
                   published, lastMutation, lastRequest, refreshVars>>

\* ------------------------------------------------------------ the requests
\* Request bodies: a board body with nothing but a name, and a task body that
\* sets the status.
BoardBody(name) ==
    [name |-> name, groupId |-> NULL, tenantId |-> NULL, ownerId |-> NULL]
TaskBody(st) == [status |-> st, assigneeId |-> NULL, parentTaskId |-> NULL]
StatusBodies == {TaskBody("IN_PROGRESS"), TaskBody("DONE")}

\* The handlers as actions, over the tokens, boards, tasks and bodies the
\* requests carry.
CreateBoard(tokens, bodies) ==
    /\ \E token \in tokens, body \in bodies :
          /\ createBoard(token, body)
          /\ lastRequest' = [op |-> "createBoard", token |-> token]
    /\ UNCHANGED <<tenantDb, now, listeners, streamVars, failing,
                   refreshVars, clientVars>>
UpdateBoard(tokens, boardIds, bodies) ==
    /\ \E token \in tokens, id \in boardIds, body \in bodies :
          /\ updateBoard(token, id, body)
          /\ lastRequest' = [op |-> "updateBoard", token |-> token]
    /\ UNCHANGED <<tenantDb, now, listeners, streamVars, failing,
                   refreshVars, clientVars>>
DeleteBoard(tokens, boardIds) ==
    /\ \E token \in tokens, id \in boardIds :
          /\ deleteBoard(token, id)
          /\ lastRequest' = [op |-> "deleteBoard", token |-> token]
    /\ UNCHANGED <<tenantDb, now, listeners, streamVars, failing,
                   refreshVars, clientVars>>
CreateTask(tokens, boardIds, bodies) ==
    /\ \E token \in tokens, boardId \in boardIds, body \in bodies :
          /\ createTask(token, boardId, body)
          /\ lastRequest' = [op |-> "createTask", token |-> token]
    /\ UNCHANGED <<tenantDb, now, listeners, streamVars, failing,
                   refreshVars, clientVars>>
UpdateTask(tokens, boardIds, taskIds, bodies) ==
    /\ \E token \in tokens, boardId \in boardIds, id \in taskIds, body \in bodies :
          /\ updateTask(token, boardId, id, body)
          /\ lastRequest' = [op |-> "updateTask", token |-> token]
    /\ UNCHANGED <<tenantDb, now, listeners, streamVars, failing,
                   refreshVars, clientVars>>
DeleteTask(tokens, boardIds, taskIds) ==
    /\ \E token \in tokens, boardId \in boardIds, id \in taskIds :
          /\ deleteTask(token, boardId, id)
          /\ lastRequest' = [op |-> "deleteTask", token |-> token]
    /\ UNCHANGED <<tenantDb, now, listeners, streamVars, failing,
                   refreshVars, clientVars>>

\* A connection's eventHandler starts to raise (its serialization or its
\* write throws) whenever it is invoked.
DeliveryFault(c) ==
    /\ pc[c] = "open"
    /\ c \notin failing
    /\ failing' = failing \cup {c}
    /\ UNCHANGED <<storeVars, now, listeners, streamVars, wrote, raised, published,
                   lastMutation, lastRequest,
                   refreshVars, clientVars>>

\* ---------------------------------------------------------- specifications
\* Stream requests that carry a valid credential of an active tenant.
ValidRequests == {Bearer("tokA"), Bearer("tokC")}

\* Spec: the bus.  Streams of two tenants and the events of both, with every
\* interleaving of connect, tenant check, disconnect and publish.
Next ==
    \/ \E c \in Conns, r \in ValidRequests : StreamRequest(c, r)
    \/ \E c \in Conns : TenantCheck(c)
    \/ \E c \in Conns : ClientClose(c)
    \/ UpdateTask({"tokA"}, {"b1"}, {"k1"}, StatusBodies)
    \/ CreateBoard({"tokC"}, {BoardBody("n1")})

Spec == Init /\ [][Next]_vars

\* StreamSpec: the stream endpoint.  Requests with every kind of credential,
\* the heartbeat timer, and the events of one tenant.
NextStream ==
    \/ \E c \in Conns, r \in StreamRequests : StreamRequest(c, r)
    \/ \E c \in Conns : TenantCheck(c)
    \/ \E c \in Conns : ClientClose(c)
    \/ \E c \in Conns : Heartbeat(c)
    \/ DeleteTask({"tokA"}, {"b1"}, {"k1"})

StreamSpec == Init /\ [][NextStream]_vars

\* FairStreamSpec: StreamSpec, where a pending prisma.tenant.findUnique resolves.
FairStreamSpec == StreamSpec /\ \A c \in Conns : WF_vars(TenantCheck(c))

\* FaultSpec: every mutation handler, with event handlers that may raise.
NextFault ==
    \/ \E c \in Conns, r \in ValidRequests : StreamRequest(c, r)
    \/ \E c \in Conns : TenantCheck(c)
    \/ \E c \in Conns : ClientClose(c)
    \/ \E c \in Conns : DeliveryFault(c)
    \/ CreateBoard({"tokA", "tokC"}, {BoardBody("n1")})
    \/ UpdateBoard({"tokA"}, {"b1"}, {BoardBody("n1")})
    \/ DeleteBoard({"tokA"}, {"b1"})
    \/ CreateTask({"tokA"}, {"b1"}, {TaskBody(NULL)})
    \/ UpdateTask({"tokA"}, {"b1"}, {"k1"}, StatusBodies)
    \/ DeleteTask({"tokA"}, {"b1"}, {"k1"})

FaultSpec == Init /\ [][NextFault]_vars

\* MutationSpec: the mutation handlers under every kind of request: callers of
\* two tenants, an administrator and a member, boards and tasks that exist,
\* that do not, or that belong to the other tenant, and bodies that name a
\* foreign tenant, an unknown assignee or an unknown parent task.
MutationTokens == {"tokA", "tokB", "tokC"}
GroupBody == [name |-> "n1", groupId |-> "g1", tenantId |-> NULL, ownerId |-> NULL]
ForeignTenantBody ==
    [name |-> "n1", groupId |-> NULL, tenantId |-> "t2", ownerId |-> "u3"]
CreateTaskBodies ==
    {TaskBody(NULL),
     [status |-> NULL, assigneeId |-> "u3", parentTaskId |-> NULL],
     [status |-> NULL, assigneeId |-> NULL, parentTaskId |-> "k9"]}
UpdateTaskBodies ==
    {TaskBody("DONE"),
     [status |-> NULL, assigneeId |-> "u2", parentTaskId |-> NULL],
     [status |-> NULL, assigneeId |-> "u3", parentTaskId |-> NULL],
     [status |-> NULL, assigneeId |-> NULL, parentTaskId |-> "k1"],
     [status |-> NULL, assigneeId |-> NULL, parentTaskId |-> "k9"]}

NextMutation ==
    \/ CreateBoard(MutationTokens, {BoardBody("n1"), ForeignTenantBody, GroupBody})
    \/ UpdateBoard(MutationTokens, {"b1", "b2"}, {BoardBody("n1")})
    \/ DeleteBoard(MutationTokens, {"b1", "b2"})
    \/ CreateTask(MutationTokens, {"b1", "b2"}, CreateTaskBodies)
    \/ UpdateTask(MutationTokens, {"b1", "b2"}, {"k1", "k2"}, UpdateTaskBodies)
    \/ DeleteTask(MutationTokens, {"b1", "b2"}, {"k1", "k2"})

MutationSpec == Init /\ [][NextMutation]_vars

\* InjectionSpec: streams of two tenants listen while callers of both tenants
\* run every mutation handler, also on the other tenant's board and task and
\* with a body that names the other tenant.
NextInjection ==
    \/ \E c \in Conns, r \in ValidRequests : StreamRequest(c, r)
    \/ \E c \in Conns : TenantCheck(c)
    \/ CreateBoard({"tokA", "tokC"}, {BoardBody("n1"), ForeignTenantBody})
    \/ UpdateBoard({"tokA", "tokC"}, {"b1"}, {BoardBody("n1")})
    \/ DeleteBoard({"tokA"}, {"b1"})
    \/ CreateTask({"tokC"}, {"b1"}, {TaskBody(NULL)})
    \/ UpdateTask({"tokA"}, {"b1"}, {"k1"}, {TaskBody("DONE")})
    \/ DeleteTask({"tokA", "tokC"}, {"b1"}, {"k1"})

InjectionSpec == Init /\ [][NextInjection]_vars

\* FrameSpec: streams of two tenants, the clock, and boards created and tasks
\* updated by an administrator of one tenant, also with a body that names
\* another owner and tenant.
NextFrame ==
    \/ \E c \in Conns, r \in ValidRequests : StreamRequest(c, r)
    \/ \E c \in Conns : TenantCheck(c)
    \/ Tick
    \/ CreateBoard({"tokA"}, {BoardBody("n1"), ForeignTenantBody})
    \/ UpdateTask({"tokA"}, {"b1"}, {"k1"}, {TaskBody("DONE")})

FrameSpec == Init /\ [][NextFrame]_vars

\* StallSpec: streams whose clients may stop reading, with heartbeats and
\* events that keep being written to them.  A pending tenant lookup resolves
\* and a scheduled heartbeat fires; a client need not ever close.
NextStall ==
    \/ \E c \in Conns, r \in ValidRequests : StreamRequest(c, r)
    \/ \E c \in Conns : TenantCheck(c)
    \/ \E c \in Conns : ClientStopsReading(c)
    \/ \E c \in Conns : ClientClose(c)
    \/ \E c \in Conns : Heartbeat(c)
    \/ UpdateTask({"tokA"}, {"b1"}, {"k1"}, {TaskBody("DONE")})

StallSpec ==
    /\ Init /\ [][NextStall]_vars
    /\ \A c \in Conns : WF_vars(TenantCheck(c)) /\ WF_vars(Heartbeat(c))

\* SlowSpec: streams of one tenant whose clients may stop reading while a
\* task of the tenant is updated.
NextSlow ==
    \/ \E c \in Conns : StreamRequest(c, Bearer("tokA"))
    \/ \E c \in Conns : TenantCheck(c)
    \/ \E c \in Conns : ClientStopsReading(c)
    \/ UpdateTask({"tokA"}, {"b1"}, {"k1"}, StatusBodies)

SlowSpec == Init /\ [][NextSlow]_vars

\* RefreshSpec: refresh requests that present stored, expired, unknown and
\* freshly issued tokens, concurrently, while the clock moves.
RefreshTokenValues == DOMAIN InitialRefreshTokens \cup {"r9", RefreshPool[1]}
NextRefresh ==
    \/ \E r \in Refreshes, tokenValue \in RefreshTokenValues : RefreshFind(r, tokenValue)
    \/ \E r \in Refreshes : RefreshDeleteExpired(r)
    \/ \E r \in Refreshes : RefreshDelete(r)
    \/ \E r \in Refreshes : RefreshCreate(r)
    \/ Tick

RefreshSpec == Init /\ [][NextRefresh]_vars

\* ConsumerSpec: a browser page of an administrator of t1, the Dashboard or
\* the detail page of board b1, with its stream, while boards are created
\* and deleted and a task of the board is updated.
NextConsumer ==
    \/ \E page \in {"dashboard", "boardDetail"} : Mount(page)
    \/ \E c \in Conns : c = ui.conn /\ StreamRequest(c, Bearer(ClientToken))
    \/ \E c \in Conns : TenantCheck(c)
    \/ \E c \in Conns : Heartbeat(c)
    \/ ConsumerMessage
    \/ \E kind \in {"boards", "boardData"} : FetchResolve(kind)
    \/ CreateBoard({"tokA"}, {BoardBody("n1")})
    \/ UpdateTask({"tokA"}, {"b1"}, {"k1"}, {TaskBody("DONE")})
    \/ DeleteBoard({"tokA"}, {"b1"})

ConsumerSpec == Init /\ [][NextConsumer]_vars

\* RevocationSpec: streams opened with a token that expires when the clock
\* moves, of a tenant that may be deactivated, with the events of a task that
\* another token of the tenant updates.
NextRevocation ==
    \/ \E c \in Conns : StreamRequest(c, Bearer("tokF"))
    \/ \E c \in Conns : TenantCheck(c)
    \/ \E c \in Conns : ClientClose(c)
    \/ Tick
    \/ DeactivateTenant("t1")
    \/ UpdateTask({"tokA"}, {"b1"}, {"k1"}, {TaskBody("DONE")})

RevocationSpec == Init /\ [][NextRevocation]_vars

\* ScopeSpec: streams of an administrator and of a member of one tenant, who
\* connect and disconnect while the administrator changes a task of a board
\* and creates boards that the member may not read.
NextScope ==
    \/ \E c \in Conns, r \in {Bearer("tokA"), Bearer("tokB")} : StreamRequest(c, r)
    \/ \E c \in Conns : TenantCheck(c)
    \/ \E c \in Conns : ClientClose(c)
    \/ UpdateTask({"tokA"}, {"b1"}, {"k1"}, {TaskBody("DONE")})
    \/ CreateBoard({"tokA"}, {BoardBody("n1")})

ScopeSpec == Init /\ [][NextScope]_vars

\* ------------------------------------------------------------- properties
\* The connection's callback is registered on the bus.
Registered(c) == \E ch \in Channels : c \in Range(listeners[ch])

\* The tenant of the credential a connection presented.
CredentialTenant(c) == verifyAccessToken(req[c].authorization.credentials).tenantId

\* The positions in a connection's writes that carry an event frame.
EventWrites(c) == {i \in 1..Len(wrote[c]) : wrote[c][i].ev > 0}
\* The events a connection was written, as indices of `published`.
Received(c) == {wrote[c][i].ev : i \in EventWrites(c)}

\* C1 - Tenant isolation: a stream session opened with a credential of tenant
\* T1 is never written a frame made from an event that was published with
\* another tenant id, whatever the interleaving of connects, disconnects and
\* mutations.
C1_TenantIsolation ==
    \A c \in Conns : \A i \in EventWrites(c) :
        published[wrote[c][i].ev].tenantId = CredentialTenant(c)

\* Events of two tenants were published while a session of each was open, and
\* each session holds the frame of its own tenant's event.
C1_Witness ==
    \E c, d \in Conns :
        /\ pc[c] = "open" /\ CredentialTenant(c) = "t1"
        /\ pc[d] = "open" /\ CredentialTenant(d) = "t2"
        /\ \E i \in Received(c), j \in Received(d) :
              published[i].tenantId = "t1" /\ published[j].tenantId = "t2"

\* C2 - Fan-out completeness: a publish on tenant T's channel writes exactly
\* one frame of that event to every session registered on T at that moment,
\* and writes nothing to any other session.
C2_FanOut ==
    [][ Len(published') = Len(published) + 1 =>
          LET idx == Len(published')
              e   == published'[idx]
          IN  \A c \in Conns :
                 IF c \in Range(listeners[Channel(e.tenantId)])
                 THEN wrote'[c] = Append(wrote[c], [frame |-> EventFrame(e), ev |-> idx])
                 ELSE wrote'[c] = wrote[c] ]_vars

\* Two sessions of one tenant were registered when its first event was
\* published, and a session of another tenant was not written it.
C2_Witness ==
    \E c, d \in Conns :
        /\ c # d
        /\ c \in Range(listeners[Channel("t1")])
        /\ d \in Range(listeners[Channel("t1")])
        /\ Len(published) = 1 /\ published[1].tenantId = "t1"
        /\ Received(c) = {1} /\ Received(d) = {1}

\* The events of a tenant, as indices of `published`.
TenantEvents(tenantId) ==
    {k \in 1..Len(published) : published[k].tenantId = tenantId}

\* C3 - Per-channel ordering: a session is written the events of its channel
\* in publish order, one frame per event with that event's content, none
\* skipped between two it was written and none after its first while it stays
\* registered; so any two sessions see the same relative order.
C3_Ordering ==
    \A c \in Conns :
        /\ \A i, j \in EventWrites(c) : i < j => wrote[c][i].ev < wrote[c][j].ev
        /\ \A i \in EventWrites(c) :
              wrote[c][i].frame = EventFrame(published[wrote[c][i].ev])
        /\ \A a, b \in Received(c) : \A k \in TenantEvents(CredentialTenant(c)) :
              a < k /\ k < b => k \in Received(c)
        /\ Registered(c) =>
              \A a \in Received(c) : \A k \in TenantEvents(CredentialTenant(c)) :
                  a < k => k \in Received(c)

\* Two sessions were each written task_updated with status IN_PROGRESS and
\* then task_updated with status DONE, as two frames in that order.
C3_Witness ==
    \E c, d \in Conns :
        /\ c # d
        /\ \A x \in {c, d} :
              \E i, j \in EventWrites(x) :
                 /\ i < j
                 /\ wrote[x][i].frame.type = <<"task", "_", "updated">>
                 /\ wrote[x][i].frame.data.status = "IN_PROGRESS"
                 /\ wrote[x][j].frame.type = <<"task", "_", "updated">>
                 /\ wrote[x][j].frame.data.status = "DONE"

\* C4 - Delivery-failure isolation: when a subscriber's callback raises while
\* an event is delivered, that subscriber is removed from the channel and
\* every other subscriber registered on the channel is still written the
\* event in the same publish call.
C4_FailureIsolation ==
    [][ Len(published') = Len(published) + 1 =>
          LET idx == Len(published')
              e   == published'[idx]
              ch  == Channel(e.tenantId)
          IN  \A c \in Range(listeners[ch]) :
                 IF c \in failing
                 THEN c \notin Range(listeners'[ch])
                 ELSE wrote'[c] = Append(wrote[c], [frame |-> EventFrame(e), ev |-> idx])
      ]_vars

\* C5 - A publishing failure never fails the mutation: a create, update or
\* delete whose write succeeded is answered with its success status (201 or
\* 200) even when publishing its event raised.
C5_MutationSucceeds ==
    lastMutation.committed => lastMutation.status \in {200, 201}

\* C6 - Disconnect teardown: when the close signal of an Open session fires,
\* its heartbeat timer is cleared and its callback removed, the number of
\* callbacks on its tenant channel goes down by exactly one, the timers and
\* callbacks of other sessions are untouched, and nothing is written to the
\* connection afterwards.
C6_Teardown ==
    [][ \A c \in Conns :
          /\ (pc[c] = "open" /\ ~closeFired[c] /\ closeFired'[c]) =>
                LET ch == Channel(user[c].tenantId) IN
                /\ ~timer'[c]
                /\ \A x \in Channels : c \notin Range(listeners'[x])
                /\ Len(listeners'[ch]) = Len(listeners[ch]) - 1
                /\ \A x \in Channels \ {ch} : listeners'[x] = listeners[x]
                /\ \A d \in Conns \ {c} :
                      /\ timer'[d] = timer[d]
                      /\ \A x \in Channels :
                            d \in Range(listeners'[x]) <=> d \in Range(listeners[x])
          /\ (pc[c] = "closed") => wrote'[c] = wrote[c]
      ]_vars

\* One of two registered sessions of a tenant was closed: it is torn down, the
\* other is still registered with its timer, and an event published after the
\* close was written to the other session only.
C6_Witness ==
    \E c, d \in Conns :
        /\ c # d
        /\ pc[c] = "closed" /\ teardowns[c] = 1 /\ ~timer[c] /\ ~Registered(c)
        /\ pc[d] = "open" /\ timer[d]
        /\ d \in Range(listeners[Channel(user[c].tenantId)])
        /\ Len(published) = 1
        /\ Received(c) = {} /\ Received(d) = {1}

\* C7 - Teardown exactly once on every exit path: for a session that reached
\* Open (or went on to Closed) and whose client has closed the connection,
\* the teardown has run exactly once.
C7_TeardownOnce ==
    \A c \in Conns :
        (pc[c] \in {"open", "closed"} /\ closeFired[c]) => teardowns[c] = 1

\* C8 - No leak on cancellation: whenever the client has closed the
\* connection, also while the tenant check is pending, the connection
\* eventually has no heartbeat timer and no callback on the bus.
C8_NoLeak ==
    \A c \in Conns : closeFired[c] ~> (~timer[c] /\ ~Registered(c))

\* The credential of a request is a Bearer header with a token that verifies.
ValidCredential(r) ==
    /\ r.authorization.scheme = "Bearer "
    /\ r.authorization.credentials \in DOMAIN Issued
\* The tenant of the request's token exists and is active.
ActiveTenant(r) ==
    LET t == Issued[r.authorization.credentials].tenantId IN
    t \in DOMAIN tenantDb /\ tenantDb[t] = "active"

\* C9 - Authentication precedes subscription: a stream request whose
\* credential is missing, malformed or invalid is rejected with 401, one whose
\* tenant check fails is rejected with 403, and neither ever registers a
\* callback, starts a timer or is written a frame; a callback is registered
\* only for a request that passed both.
C9_AuthFirst ==
    \A c \in Conns :
        pc[c] # "idle" =>
            /\ ~ValidCredential(req[c]) =>
                  /\ pc[c] = "rejected" /\ status[c] = 401
                  /\ ~Registered(c) /\ ~timer[c] /\ wrote[c] = <<>>
            /\ (ValidCredential(req[c]) /\ ~ActiveTenant(req[c])) =>
                  /\ pc[c] \in {"tenantCheck", "rejected"}
                  /\ pc[c] = "rejected" => status[c] = 403
                  /\ ~Registered(c) /\ ~timer[c] /\ wrote[c] = <<>>
            /\ (Registered(c) \/ timer[c] \/ wrote[c] # <<>>) =>
                  ValidCredential(req[c]) /\ ActiveTenant(req[c])

\* A request with a token that does not verify and a request of an inactive
\* tenant were both rejected.
C9_Witness ==
    \E c, d \in Conns :
        /\ pc[c] = "rejected" /\ code[c] = "INVALID_TOKEN"
        /\ pc[d] = "rejected" /\ code[d] = "TENANT_INACTIVE"

\* A request that carries the token only in the ?token= query parameter.
QueryOnly(r) == r.authorization = NoHeader /\ r.token \in DOMAIN Issued

Publishes == Len(published') = Len(published) + 1
NewEvent == published'[Len(published')]
Caller == verifyAccessToken(lastRequest'.token)

\* C11 - No cross-tenant event injection: every event a mutation publishes
\* carries the tenant id of the caller's token payload and is delivered on
\* that tenant's channel only (to every session registered on it and to no
\* session of another tenant), whatever the body and the URL parameters say.
C11_NoInjection ==
    [][ Publishes =>
          /\ NewEvent.tenantId = Caller.tenantId
          /\ \A c \in Conns :
                IF c \in Range(listeners[Channel(Caller.tenantId)])
                THEN Len(wrote'[c]) = Len(wrote[c]) + 1
                ELSE wrote'[c] = wrote[c]
      ]_vars

\* A caller of tenant t1 created a board while a session of t1 and a session
\* of t2 were open: the t1 session holds the frame and the t2 session does not.
C11_Witness ==
    \E c, d \in Conns :
        /\ pc[c] = "open" /\ CredentialTenant(c) = "t1"
        /\ pc[d] = "open" /\ CredentialTenant(d) = "t2"
        /\ lastRequest = [op |-> "createBoard", token |-> "tokA"]
        /\ lastMutation.committed
        /\ published[lastMutation.emitted].tenantId = "t1"
        /\ lastMutation.emitted \in Received(c)
        /\ lastMutation.emitted \notin Received(d)

\* The event each handler publishes.
OpEvent ==
    [createBoard |-> <<"board", "created">>, updateBoard |-> <<"board", "updated">>,
     deleteBoard |-> <<"board", "deleted">>, createTask  |-> <<"task", "created">>,
     updateTask  |-> <<"task", "updated">>,  deleteTask  |-> <<"task", "deleted">>]

\* The caller may change the board or task of the store that the event names.
MayChange(e, u) ==
    LET id == e.data.id IN
    IF e.type = "created" THEN TRUE
    ELSE IF e.entity = "board"
    THEN /\ id \in DOMAIN boards /\ boards[id].tenantId = u.tenantId
         /\ (boards[id].ownerId = u.userId \/ u.roleName = "admin")
    ELSE /\ id \in DOMAIN tasks
         /\ tasks[id].boardId \in DOMAIN boards
         /\ boards[tasks[id].boardId].tenantId = u.tenantId
         /\ \/ tasks[id].ownerId = u.userId
            \/ u.roleName = "admin"
            \/ (e.type = "updated" /\ tasks[id].assigneeId = u.userId)

\* The store after the step holds what the event says.
Written(e) ==
    LET id == e.data.id IN
    IF e.entity = "board"
    THEN /\ e.type = "created" => id \notin DOMAIN boards
         /\ e.type = "deleted" => id \notin DOMAIN boards'
         /\ e.type # "deleted" =>
               id \in DOMAIN boards' /\ e.data = BoardResponse(id, boards'[id])
    ELSE /\ e.type = "created" => id \notin DOMAIN tasks
         /\ e.type = "deleted" => id \notin DOMAIN tasks'
         /\ e.type # "deleted" =>
               id \in DOMAIN tasks' /\ e.data = TaskResponse(id, tasks'[id])

\* C12 - One event per successful mutation, none otherwise: a request whose
\* write succeeds publishes exactly one event, of the handler's entity and
\* change kind and holding the state just written; a request that ends in an
\* error before the write (not found, neither owner nor admin, unknown
\* assignee or parent task) publishes nothing and leaves the store unchanged.
C12_OneEventPerMutation ==
    [][ /\ (boards' # boards \/ tasks' # tasks \/ published' # published
                \/ lastMutation'.committed) =>
              /\ Publishes
              /\ SubSeq(published', 1, Len(published)) = published
              /\ lastMutation'.committed /\ lastMutation'.emitted = Len(published')
              /\ <<NewEvent.entity, NewEvent.type>> = OpEvent[lastRequest'.op]
              /\ MayChange(NewEvent, Caller)
              /\ Written(NewEvent)
        /\ ~lastMutation'.committed =>
              /\ UNCHANGED <<boards, tasks, published>>
              /\ lastMutation'.status \in {403, 404, 500}
      ]_vars

\* A member who neither owns board b1 nor is an administrator was refused its
\* update with the store and the published events as they were, after an
\* update by the administrator had published one event.
C12_Witness ==
    /\ lastRequest = [op |-> "updateBoard", token |-> "tokB"]
    /\ ~lastMutation.committed /\ lastMutation.status = 403
    /\ Len(published) = 1
    /\ <<published[1].entity, published[1].type>> = <<"board", "updated">>
    /\ boards["b1"].name = "n1"

\* C13 - Publishing on a channel without callbacks: the publish completes
\* without error (nothing is raised and the mutation is answered with its
\* success status), nothing is written to any connection, and the registry of
\* callbacks is unchanged.
C13_EmptyChannel ==
    [][ (Publishes /\ listeners[Channel(NewEvent.tenantId)] = <<>>) =>
          /\ wrote' = wrote
          /\ listeners' = listeners
          /\ raised' = raised
          /\ lastMutation'.committed /\ lastMutation'.status \in {200, 201}
      ]_vars

\* An event of a tenant that never had a session was published and answered
\* with success while a session of another tenant was registered; no
\* connection holds a frame of it.
C13_Witness ==
    /\ lastMutation.committed /\ lastMutation.status \in {200, 201}
    /\ LET e == published[lastMutation.emitted] IN
       /\ \A c \in Conns : CredentialTenant(c) # e.tenantId
       /\ listeners[Channel(e.tenantId)] = <<>>
       /\ \E d \in Conns : Registered(d)
    /\ \A c \in Conns : lastMutation.emitted \notin Received(c)

Decode(frame) ==
    [tenantId  |-> IF "tenantId" \in DOMAIN frame.data
                   THEN frame.data.tenantId ELSE NULL,
     entity    |-> frame.type[1],
     type      |-> frame.type[3],
     data      |-> frame.data,
     timestamp |-> frame.timestamp]

\* C15 - Lossless wire encoding: all five fields of every published event
\* (tenantId, entity, change kind, payload, timestamp) are recovered from the
\* frame written for it, also the tenantId of task created and task updated
\* events.
C15_Lossless ==
    \A i \in 1..Len(published) : Decode(EventFrame(published[i])) = published[i]

\* C16 - End-to-end frame content: when a user creates a board, every stream
\* open for the user's tenant is written one frame of type "board_created"
\* whose data is the created board, owned by the authenticated user whatever
\* the body says, and whose timestamp is the time of the publish; in general
\* the type of an event frame is "<entity>_<changeKind>" of the handler.
C16_FrameContent ==
    [][ Publishes =>
          \A c \in Range(listeners[Channel(Caller.tenantId)]) :
             /\ Len(wrote'[c]) = Len(wrote[c]) + 1
             /\ SubSeq(wrote'[c], 1, Len(wrote[c])) = wrote[c]
             /\ LET f  == wrote'[c][Len(wrote'[c])].frame
                    op == OpEvent[lastRequest'.op]
                IN  /\ f.type = <<op[1], "_", op[2]>>
                    /\ f.timestamp = now
                    /\ f.data = NewEvent.data
                    /\ lastRequest'.op = "createBoard" =>
                          /\ f.type = <<"board", "_", "created">>
                          /\ f.data.ownerId = Caller.userId
                          /\ f.data.id \in DOMAIN boards' \ DOMAIN boards
                          /\ f.data = BoardResponse(f.data.id, boards'[f.data.id])
      ]_vars

\* User u1 of tenant t1 created a board at time 1; a stream of t1, open since
\* time 0, holds one board_created frame with data.ownerId u1 and timestamp 1.
C16_Witness ==
    \E c \in Conns :
        /\ pc[c] = "open" /\ CredentialTenant(c) = "t1"
        /\ wrote[c][1].frame = ConnectedFrame("t1", 0)
        /\ lastRequest = [op |-> "createBoard", token |-> "tokA"]
        /\ Len(wrote[c]) = 2
        /\ wrote[c][2].frame.type = <<"board", "_", "created">>
        /\ wrote[c][2].frame.data.ownerId = "u1"
        /\ wrote[c][2].frame.timestamp = 1

\* The boards a caller may read: all of the tenant for an administrator, else
\* those of the tenant that are in the caller's group or that have no group
\* and are owned by the caller.
VisibleBoards(token) ==
    LET u == verifyAccessToken(token) IN
    {id \in DOMAIN boards :
        /\ boards[id].tenantId = u.tenantId
        /\ \/ u.roleName = "admin"
           \/ (UserGroup[u.userId] # NULL /\ boards[id].groupId = UserGroup[u.userId])
           \/ (boards[id].groupId = NULL /\ boards[id].ownerId = u.userId)}

\* C17 - Board visibility on reads: for every caller getBoards returns exactly
\* the boards the caller may read, and getBoard answers not-found exactly for
\* the boards outside that set (under at least one of the two ways the query
\* engine may treat an undefined filter value).
C17_BoardVisibility ==
    \E mode \in PrismaModes :
        \A token \in {"tokA", "tokB", "tokC", "tokE"} :
            /\ getBoards(token, mode) = VisibleBoards(token)
            /\ \A id \in DOMAIN boards :
                  getBoard(token, id, mode) = 404 <=> id \notin VisibleBoards(token)

\* C18 - The bus scopes by tenant only: a publish writes the same frame, the
\* frame of the event, to every session registered on the tenant's channel,
\* whatever the role, group or ownership of the session's user; so two
\* sessions of a tenant registered over the same interval are written the
\* same sequence of event frames.
C18_TenantScopeOnly ==
    [][ Publishes =>
          \A c, d \in Range(listeners[Channel(NewEvent.tenantId)]) :
             /\ Len(wrote'[c]) = Len(wrote[c]) + 1
             /\ wrote'[c][Len(wrote'[c])].frame = EventFrame(NewEvent)
             /\ wrote'[c][Len(wrote'[c])] = wrote'[d][Len(wrote'[d])]
      ]_vars

\* The stream of a member and the stream of an administrator of the same
\* tenant hold the same event frames, of a task of a board and of a new board
\* that the member may not read.
C18_Witness ==
    \E c, d \in Conns :
        /\ req[c] = Bearer("tokA") /\ req[d] = Bearer("tokB")
        /\ Registered(c) /\ Registered(d)
        /\ Received(d) = {1, 2} /\ Received(c) = {1, 2}
        /\ SelectSeq(wrote[c], LAMBDA f : f.ev > 0) = SelectSeq(wrote[d], LAMBDA f : f.ev > 0)
        /\ \E i, j \in {1, 2} :
              /\ published[i].entity = "task"
              /\ published[i].data.boardId \notin VisibleBoards("tokB")
              /\ published[j].entity = "board"
              /\ published[j].data.id \notin VisibleBoards("tokB")

\* C19 - No replay: a session is written an event frame only in the step that
\* publishes the event and only if its callback is registered at that moment;
\* what was published before it subscribed or after it was torn down is never
\* written to it, and what was written is never rewritten.
C19_NoReplay ==
    [][ \A c \in Conns :
          /\ Len(wrote'[c]) >= Len(wrote[c])
          /\ SubSeq(wrote'[c], 1, Len(wrote[c])) = wrote[c]
          /\ \A i \in (Len(wrote[c]) + 1)..Len(wrote'[c]) :
                wrote'[c][i].ev > 0 =>
                   /\ Publishes
                   /\ wrote'[c][i].ev = Len(published')
                   /\ c \in Range(listeners[Channel(NewEvent.tenantId)])
      ]_vars

\* A client whose session received the first event of its tenant and was
\* torn down has connected again after the second event was published: the
\* old session holds the first event only and the new session none.
C19_Witness ==
    \E c, d \in Conns :
        /\ c # d /\ req[c] = req[d]
        /\ pc[c] = "closed" /\ teardowns[c] = 1
        /\ pc[d] = "open" /\ Registered(d)
        /\ Len(published) = 2
        /\ \A i \in {1, 2} : published[i].tenantId = CredentialTenant(c)
        /\ Received(c) = {1}
        /\ Received(d) = {}

\* C20 - Backpressure teardown: a session whose client has stopped reading is
\* eventually torn down by the server (heartbeat cleared, callback removed),
\* not kept open for as long as the socket stays connected.
C20_BackpressureTeardown ==
    \A c \in Conns :
        (c \in unwritable /\ pc[c] = "open") ~> (~timer[c] /\ ~Registered(c))

\* C21 - A slow subscriber blocks nobody: while clients of sessions are not
\* reading, a mutation request is still handled; its publish returns without
\* raising, the request is answered with its success status, and every
\* session registered on the channel, those not reading and the others, is
\* handed the event in that step.
C21_NonBlocking ==
    [][ /\ (unwritable # {} /\ Len(published) < MaxEvents) =>
              ENABLED UpdateTask({"tokA"}, {"b1"}, {"k1"}, {TaskBody("DONE")})
        /\ (Publishes /\ unwritable # {}) =>
              /\ raised' = raised
              /\ lastMutation'.committed /\ lastMutation'.status \in {200, 201}
              /\ \A c \in Range(listeners[Channel(NewEvent.tenantId)]) :
                    wrote'[c] = Append(wrote[c], [frame |-> EventFrame(NewEvent),
                                                 ev |-> Len(published')])
      ]_vars

\* Two sessions of a tenant are registered, the one registered first with a
\* client that had stopped reading when the last event was published: the
\* request was answered with 200 and both sessions were handed the event.
C21_Witness ==
    \E c, d \in Conns :
        /\ c # d
        /\ listeners[Channel("t1")] = <<c, d>>
        /\ c \in lastMutation.stalled /\ d \notin unwritable
        /\ lastMutation.committed /\ lastMutation.status = 200
        /\ lastMutation.emitted \in Received(c)
        /\ lastMutation.emitted \in Received(d)

\* The refresh requests that were answered with new tokens.
Redeemed == {r \in Refreshes : refreshReq[r].status = 200}

\* C22 - Refresh-token rotation: of the requests that present one token, also
\* concurrently, at most one is answered with new tokens; after a successful
\* refresh the presented token is not in the store, and the request has put
\* exactly one new token there, for the user of the presented token; a
\* request that found its token expired is rejected and leaves the token
\* deleted.
C22_Rotation ==
    /\ \A r, q \in Redeemed : refreshReq[r].token = refreshReq[q].token => r = q
    /\ \A r \in Redeemed :
          /\ refreshReq[r].token \notin DOMAIN refreshTokens
          /\ refreshReq[r].refreshToken # refreshReq[r].token
          /\ \A q \in Redeemed \ {r} : refreshReq[q].refreshToken # refreshReq[r].refreshToken
          /\ LET n == refreshReq[r].refreshToken IN
             \/ /\ n \in DOMAIN refreshTokens
                /\ refreshTokens[n].userId = refreshReq[r].storedToken.userId
             \/ \E q \in Refreshes : refreshReq[q].token = n /\ refreshReq[q].pc # "idle"
    /\ Cardinality(DOMAIN refreshTokens \ DOMAIN InitialRefreshTokens)
          <= Cardinality(Redeemed)
    /\ \A r \in Refreshes :
          refreshReq[r].expired =>
             /\ refreshReq[r].status # 200 /\ refreshReq[r].refreshToken = NULL
             /\ refreshReq[r].pc = "done" =>
                   /\ refreshReq[r].status \in {401, 404}
                   /\ refreshReq[r].token \notin DOMAIN refreshTokens

\* Two requests presented token r1 and both read it from the store before
\* either rotated it: one was answered with a new token of u1, which is
\* stored, the other with 404, and r1 is gone.
C22_Witness ==
    \E r, q \in Refreshes :
        /\ refreshReq[r].token = "r1" /\ refreshReq[q].token = "r1"
        /\ refreshReq[r].storedToken # NoRow /\ refreshReq[q].storedToken # NoRow
        /\ refreshReq[r].status = 200 /\ refreshReq[q].status = 404
        /\ "r1" \notin DOMAIN refreshTokens
        /\ refreshReq[r].refreshToken \in DOMAIN refreshTokens
        /\ refreshTokens[refreshReq[r].refreshToken].userId = "u1"

\* C23 - Connected acknowledgement comes first: a connection that was written
\* anything was first written the "connected" frame with the tenant id of its
\* session, and only once; every frame of an event or a heartbeat comes after
\* it, and a session that opened has been written it.
C23_ConnectedFirst ==
    \A c \in Conns :
        /\ pc[c] \in {"open", "closed"} => wrote[c] # <<>>
        /\ wrote[c] # <<>> =>
              /\ wrote[c][1].ev = 0
              /\ wrote[c][1].frame.type = "connected"
              /\ wrote[c][1].frame.tenantId = CredentialTenant(c)
              /\ \A i \in 2..Len(wrote[c]) :
                    wrote[c][i].ev > 0 \/ wrote[c][i].frame.type = "heartbeat"

\* A session of tenant t1 was written the connected frame of t1, then a
\* heartbeat and the frame of an event, in either order.
C23_Witness ==
    \E c \in Conns :
        /\ Len(wrote[c]) = 3
        /\ wrote[c][1].frame = ConnectedFrame("t1", 0)
        /\ \E i, j \in 2..3 :
              wrote[c][i].frame.type = "heartbeat" /\ wrote[c][j].ev > 0

\* C24 - Heartbeat timer tied 1:1 to the session: a connection's timer runs
\* if and only if its callback is registered on the bus, it is cancelled
\* whenever the session ends, and no heartbeat frame is written to a
\* connection whose client has closed it.
C24_TimerTiedToSession ==
    [][ /\ \A c \in Conns : timer[c] <=> Registered(c)
        /\ \A c \in Conns :
              (/\ Len(wrote'[c]) = Len(wrote[c]) + 1
               /\ wrote'[c][Len(wrote'[c])].ev = 0
               /\ wrote'[c][Len(wrote'[c])].frame.type = "heartbeat") =>
                  ~closeFired[c]
      ]_vars

\* How often a connection's callback is registered on a channel.
Registrations(c, ch) ==
    Cardinality({i \in 1..Len(listeners[ch]) : listeners[ch][i] = c})

\* C25 - Registry well-formedness: the callback of a session is registered
\* at most once, and on no channel but the one of the tenant of the session's
\* credential; so no connection is written the frame of one event twice.
C25_RegistryWellFormed ==
    \A c \in Conns :
        /\ \A ch \in Channels :
              Registrations(c, ch) <=
                  IF ch = Channel(CredentialTenant(c)) THEN 1 ELSE 0
        /\ \A i, j \in EventWrites(c) : wrote[c][i].ev = wrote[c][j].ev => i = j

\* A session of t1 and a session of t2 are registered, each once and on its
\* own channel, and the session of t1 holds one frame of an event of t1.
C25_Witness ==
    \E c, d \in Conns :
        /\ listeners[Channel("t1")] = <<c>> /\ CredentialTenant(c) = "t1"
        /\ listeners[Channel("t2")] = <<d>> /\ CredentialTenant(d) = "t2"
        /\ \E k \in Received(c) : published[k].tenantId = "t1"

\* What a page displays of boards and tasks.
Displayed(u) == <<u.boards, u.board, u.tasks>>

\* C26 - Consumers re-validate: handling a frame never changes the boards or
\* tasks a page displays, other than by leaving the page of a deleted board
\* for a Dashboard that starts empty and fetches its list; a connected or
\* heartbeat frame changes nothing and requests nothing; and whenever the
\* displayed boards or tasks do change, they become the answer of GET
\* /boards, or of GET /boards/:id and GET /boards/:id/tasks, at that moment.
C26_Revalidate ==
    [][ /\ (ui.page # "none" /\ ui'.conn = ui.conn /\ ui'.read = ui.read + 1) =>
              /\ Displayed(ui') = Displayed(ui)
              /\ isSynthetic(wrote[ui.conn][ui'.read].frame) =>
                    ui' = [ui EXCEPT !.read = @ + 1]
        /\ (ui.page # "none" /\ ui'.conn # ui.conn) =>
              /\ Displayed(ui') = Displayed(NoUi)
              /\ "boards" \in ui'.fetching
        /\ (ui'.conn = ui.conn /\ Displayed(ui') # Displayed(ui)) =>
              /\ ui.fetching # ui'.fetching /\ ui'.fetching \subseteq ui.fetching
              /\ \/ ui'.boards = ui.boards
                 \/ ui'.boards = getBoardsResponse(ClientToken)
              /\ \/ <<ui'.board, ui'.tasks>> = <<ui.board, ui.tasks>>
                 \/ /\ RouteBoardId \in DOMAIN boards
                    /\ ui'.board = {BoardResponse(RouteBoardId, boards[RouteBoardId])}
                    /\ ui'.tasks = getTasks(ClientToken, RouteBoardId).data
      ]_vars

\* The detail page of board b1 was handed the connected frame and the
\* task_updated frame of task k1 on its stream, and after its refetch it
\* displays the task as the store has it, with status DONE.
C26_Witness ==
    /\ ui.page = "boardDetail" /\ ui.conn = 1 /\ ui.read = 2
    /\ hasType(wrote[1][2].frame, "task", "updated")
    /\ ui.fetching = {}
    /\ ui.tasks = {TaskResponse("k1", tasks["k1"])}
    /\ tasks["k1"].status = "DONE"

\* C27 - Published events are immutable: an event handed to the bus keeps
\* all its fields in every later step, and every frame made from it, for
\* whichever subscriber, is the serialization of the event as it is now; so
\* all subscribers of one publish were written the same frame.
C27_Immutable ==
    [][ /\ Len(published') >= Len(published)
        /\ \A i \in 1..Len(published) : published'[i] = published[i]
        /\ \A c \in Conns : \A i \in 1..Len(wrote'[c]) :
              wrote'[c][i].ev > 0 =>
                 /\ wrote'[c][i].frame = EventFrame(published'[wrote'[c][i].ev])
                 /\ \A d \in Conns : \A j \in 1..Len(wrote'[d]) :
                       wrote'[d][j].ev = wrote'[c][i].ev =>
                          wrote'[d][j].frame = wrote'[c][i].frame
      ]_vars

\* Two sessions of a tenant hold the same frame of the tenant's first event,
\* with the fields the event still has after the clock has moved and a second
\* event has been published.
C27_Witness ==
    \E c, d \in Conns :
        /\ c # d
        /\ Len(published) = 2 /\ published[1].timestamp < published[2].timestamp
        /\ 1 \in Received(c) /\ 1 \in Received(d)
        /\ \E i \in EventWrites(c), j \in EventWrites(d) :
              /\ wrote[c][i].ev = 1 /\ wrote[d][j].ev = 1
              /\ wrote[c][i].frame = wrote[d][j].frame
              /\ wrote[c][i].frame = EventFrame(published[1])

\* C28 - No server-side revocation of an Open stream: a session that is Open
\* with its callback registered stays Open and registered, with its timer,
\* in every step but the one in which its request's close signal fires, and
\* is written every event published for its tenant; also when its token has
\* expired and when its tenant has been deactivated since it connected.
C28_NoRevocation ==
    [][ \A c \in Conns :
          (/\ pc[c] = "open"
           /\ c \in Range(listeners[Channel(user[c].tenantId)])
           /\ closeFired'[c] = closeFired[c]) =>
              /\ pc'[c] = "open"
              /\ c \in Range(listeners'[Channel(user[c].tenantId)])
              /\ timer'[c] = timer[c]
              /\ (Publishes /\ NewEvent.tenantId = user[c].tenantId) =>
                    wrote'[c] = Append(wrote[c], [frame |-> EventFrame(NewEvent),
                                                 ev |-> Len(published')])
      ]_vars

\* A session opened with token tokF at time 0; the token has expired and the
\* tenant is inactive, and the session is still registered with its timer
\* and holds the frame of an event published after the token expired.
C28_Witness ==
    \E c \in Conns :
        /\ pc[c] = "open" /\ ~closeFired[c]
        /\ req[c] = Bearer("tokF") /\ wrote[c][1].frame.timestamp = 0
        /\ verifyAccessToken("tokF") = NoPayload
        /\ tenantDb["t1"] = "inactive"
        /\ c \in Range(listeners[Channel("t1")]) /\ timer[c]
        /\ \E k \in Received(c) : published[k].timestamp >= TokenExp["tokF"]

\* C29 - Subscriber count tracks live sessions: the number of callbacks on a
\* tenant's channel is the number of sessions of the tenant that subscribed
\* and were not torn down; and once the client of every connection has
\* closed it and no request is pending, no channel holds a callback.
C29_CountTracksSessions ==
    /\ \A t \in TenantIds :
          Len(listeners[Channel(t)]) =
              Cardinality({c \in Conns : pc[c] = "open" /\ user[c].tenantId = t})
    /\ (\A c \in Conns : pc[c] # "tenantCheck" /\ (pc[c] = "open" => closeFired[c])) =>
          \A ch \in Channels : listeners[ch] = <<>>

\* The channel holds more callbacks than the limit of setMaxListeners.
MaxListenersExceeded(ch) == Len(listeners[ch]) > MaxListeners

\* C30 - No subscriber ceiling: a session that opens is added to its channel
\* however many callbacks the channel holds, every Open session stays
\* registered, and a publish writes the event to every Open session of the
\* tenant, also when the channel holds more callbacks than the listener
\* limit.
C30_NoCeiling ==
    [][ /\ \A c \in Conns :
              (pc[c] = "tenantCheck" /\ pc'[c] = "open") =>
                 listeners'[Channel(user[c].tenantId)] =
                     Append(listeners[Channel(user[c].tenantId)], c)
        /\ \A c \in Conns :
              pc'[c] = "open" => c \in Range(listeners'[Channel(user'[c].tenantId)])
        /\ Publishes =>
              \A c \in Conns :
                 (pc[c] = "open" /\ user[c].tenantId = NewEvent.tenantId) =>
                    wrote'[c] = Append(wrote[c], [frame |-> EventFrame(NewEvent),
                                                 ev |-> Len(published')])
      ]_vars

\* A channel holds more callbacks than the listener limit, and each of its
\* sessions is Open and was written the event published last.
C30_Witness ==
    \E ch \in Channels :
        /\ MaxListenersExceeded(ch)
        /\ lastMutation.committed
        /\ \A c \in Range(listeners[ch]) :
              pc[c] = "open" /\ lastMutation.emitted \in Received(c)
====
